---- MODULE Spec2Model ----
(***************************************************************************)
(* Strands game logic as implemented in src/src/stubs.py (StrandStub,      *)
(* BoardStub, StrandsGameStub) on top of the abstract classes of           *)
(* src/src/base.py.                                                        *)
(*                                                                         *)
(* Strand objects live in a heap (a sequence, in construction order); a    *)
(* game refers to its answer strands and its found strands by heap index.  *)
(* StrandStub.counter is a class attribute shared by every strand of the   *)
(* process.                                                                *)
(***************************************************************************)
EXTENDS Integers, Sequences, FiniteSets, TLC

\* ---------------------------------------------------------------- bounds
MaxGames == 2
MaxUserStrands == 1
MaxLog == 5
Margin == 1

VARIABLES counter, heap, games, last, log

vars == <<counter, heap, games, last, log>>

\* ------------------------------------------------------- value encodings
\* tuple[str, bool] | str | tuple[int, bool] | None | raised exception,
\* all as records of one shape so that any two results can be compared.
Pair(w, b) == [tag |-> "pair", s |-> w, i |-> 0, b |-> b]
Str(m) == [tag |-> "str", s |-> m, i |-> 0, b |-> FALSE]
HintRes(i, b) == [tag |-> "hint", s |-> "", i |-> i, b |-> b]
Raise(e) == [tag |-> "raise", s |-> e, i |-> 0, b |-> FALSE]
NoneV == [tag |-> "none", s |-> "", i |-> 0, b |-> FALSE]

Range(f) == {f[k] : k \in DOMAIN f}

\* --------------------------------------------------------------- PosStub
\* the Step enumeration, by value
Steps == {"n", "s", "e", "w", "nw", "ne", "sw", "se"}

take_step(p, step) == Raise("NotImplementedError")

step_to(p, other) == Raise("NotImplementedError")

is_adjacent_to(p, other) == Raise("NotImplementedError")

\* ------------------------------------------------------------ StrandStub
positions1 == << <<0, 3>>, <<0, 2>>, <<0, 1>>, <<0, 0>> >>
positions2 == << <<1, 0>>, <<2, 0>>, <<2, 1>> >>
positions3 == << <<1, 1>>, <<1, 2>>, <<1, 3>>, <<0, 4>>, <<1, 4>> >>
positions4 == << <<2, 4>>, <<2, 3>>, <<2, 2>> >>
all_positions == <<positions1, positions2, positions3, positions4>>

\* StrandStub.__init__ with the class counter at cnt
StrandStub(start, steps, cnt) ==
    [start |-> start, steps |-> steps, strand_id |-> cnt]

\* positions() indexes all_positions with strand_id: IndexError from 4 on
positions_raises(x) == x.strand_id >= Len(all_positions)
positions(x) == all_positions[x.strand_id + 1]

\* StrandBase.__eq__ with PosBase.__eq__
Pos_eq(p, q) == p[1] = q[1] /\ p[2] = q[2]
Strand_eq_by_id(x, y) == x.strand_id = y.strand_id
Strand_eq(x, y) == Pos_eq(x.start, y.start) /\ x.steps = y.steps

\* ------------------------------------------------------------- BoardStub
num_rows == 3
num_cols == 5

\* the letters StrandsGameStub.board() hands to BoardStub
board_letters ==
    << <<"C", "S", "M", "C", "T">>,
       <<"O", "F", "O", "R", "Y">>,
       <<"N", "E", "O", "W", "T">> >>

\* Python list indexing lst[i] on a list of length n: a negative index
\* counts from the end, anything outside -n..n-1 is an IndexError
py_index_raises(i, n) == i < -n \/ i >= n
py_index(i, n) == IF i < 0 THEN i + n + 1 ELSE i + 1

\* BoardStub.get_letter: self._letters[pos.r][pos.c]
get_letter(letters, pos) ==
    IF py_index_raises(pos[1], Len(letters))
    THEN Raise("IndexError")
    ELSE LET row == letters[py_index(pos[1], Len(letters))]
         IN  IF py_index_raises(pos[2], Len(row))
             THEN Raise("IndexError")
             ELSE Str(row[py_index(pos[2], Len(row))])

\* BoardStub.evaluate_strand
evaluate_strand(letters, x) == Raise("NotImplementedError")

\* ------------------------------------------------------- StrandsGameStub
EmptyGame == [strands |-> <<>>, found |-> <<>>]

answers(self) ==
    << <<"cmsc", self.strands[1]>>, <<"one", self.strands[2]>>,
       <<"forty", self.strands[3]>>, <<"two", self.strands[4]>> >>

found_strands(self) == self.found

hint_threshold(self) == 0

hint_meter_count(self) == Len(self.found)
hint_meter(self) == 0

active_hint(self) == NoneV

game_over(self) == FALSE

\* submit_strand: the list self.found after the call
submit_strand_found_rev(self) ==
    IF Len(self.found) = 4
    THEN self.found
    ELSE Append(self.found, self.strands[4 - Len(self.found)])
submit_strand_found_reset(self) ==
    IF Len(self.found) = 4
    THEN self.found
    ELSE <<self.strands[Len(self.found) + 1]>>
submit_strand_found_nocheck(self) ==
    Append(self.found, self.strands[(Len(self.found) % 4) + 1])
submit_strand_found(self) ==
    LET count == Len(self.found)
    IN  IF count = 4
        THEN self.found
        ELSE Append(self.found, self.strands[count + 1])

\* submit_strand: what the call returns or raises
submit_strand_result(self) ==
    IF Len(self.found) = 4
    THEN Raise("ValueError")
    ELSE Pair("BLAH", TRUE)

use_hint_result(self) == Str("No hint for you. Next!")

\* ---------------------------------------------------------------- inputs
ThresholdInputs == {0, 3}

UserStrandInputs ==
    { [start |-> <<0, 0>>, steps |-> <<"e", "e", "e">>],
      [start |-> <<1, 0>>, steps |-> <<"e", "e", "e">>],
      [start |-> <<1, 1>>, steps |-> <<>>] }

\* a game file, as read: the rows of the board (one string per cell) and
\* the answer lines (the word's letters, the 0-indexed start, the steps).
\* boards/cs-142.txt:
cs_142 ==
    [board |-> << <<"C", "S", "M", "C", "T">>,
                  <<"O", "F", "O", "R", "Y">>,
                  <<"N", "E", "O", "W", "T">> >>,
     answers |->
         << [word |-> <<"c", "m", "s", "c">>, start |-> <<0, 3>>,
             steps |-> <<"w", "w", "w">>],
            [word |-> <<"o", "n", "e">>, start |-> <<1, 0>>,
             steps |-> <<"s", "e">>],
            [word |-> <<"f", "o", "r", "t", "y">>, start |-> <<1, 1>>,
             steps |-> <<"e", "e", "ne", "s">>],
            [word |-> <<"t", "w", "o">>, start |-> <<2, 4>>,
             steps |-> <<"w", "w">>] >>]

\* cs-142.txt with one thing wrong each
ragged_board == [cs_142 EXCEPT !.board[2] = <<"O", "F", "O", "R">>]
digit_cell == [cs_142 EXCEPT !.board[1][2] = "5"]
wide_cell == [cs_142 EXCEPT !.board[1][2] = "SS"]
short_word ==
    [cs_142 EXCEPT !.answers =
        << cs_142.answers[1], cs_142.answers[2], cs_142.answers[3],
           [word |-> <<"t", "w">>, start |-> <<2, 4>>, steps |-> <<"w">>],
           [word |-> <<"o">>, start |-> <<2, 2>>, steps |-> <<>>] >>]
start_off_board == [cs_142 EXCEPT !.answers[4].start = <<3, 4>>]
step_off_board == [cs_142 EXCEPT !.answers[2].steps = <<"s", "s">>]
misspelled == [cs_142 EXCEPT !.answers[2].word = <<"o", "w", "e">>]
unknown_step == [cs_142 EXCEPT !.answers[4].steps = <<"w", "x">>]
board_not_filled ==
    [cs_142 EXCEPT !.answers =
        <<cs_142.answers[1], cs_142.answers[2], cs_142.answers[3]>>]

FileInputs ==
    {cs_142, ragged_board, digit_cell, wide_cell, short_word,
     start_off_board, step_off_board, misspelled, unknown_step,
     board_not_filled}

\* one call: the operation, the game and strand it was given (heap indices,
\* 0 for none), the constructor's hint_threshold and game file arguments,
\* the position given to get_letter, the result, and the game object before
\* and after
Call(op, g, s, arg, file, pos, ret, pre, post) ==
    [op |-> op, g |-> g, s |-> s, arg |-> arg, file |-> file, pos |-> pos,
     ret |-> ret, pre |-> pre, post |-> post]

NoPos == <<0, 0>>

\* one call of a PosStub method: the position it is called on, the step or
\* the other position it is given, and the result
PosCall(op, pos, step, other, ret) ==
    [op |-> op, pos |-> pos, step |-> step, other |-> other, ret |-> ret]
NoFile == [board |-> <<>>, answers |-> <<>>]

NumUserStrands == Len(heap) - 4 * Len(games)

\* ------------------------------------------------------------------ Init
Init ==
    /\ counter = 0
    /\ heap = <<>>
    /\ games = <<>>
    /\ last = Call("start", 0, 0, 0, NoFile, NoPos, NoneV, EmptyGame, EmptyGame)
    /\ log = <<>>

\* --------------------------------------------------------------- actions
\* StrandsGameStub(filename, hint_threshold)
StrandsGameStub_init(filename, ht) ==
    LET n == Len(heap)
        self == [strands |-> <<n + 1, n + 2, n + 3, n + 4>>,
                 found |-> <<>>]
    IN  /\ heap' = heap \o
               << StrandStub(<<0, 3>>, <<"w", "w", "w">>, counter),
                  StrandStub(<<1, 0>>, <<"s", "e">>, counter + 1),
                  StrandStub(<<1, 1>>, <<"e", "e", "ne", "s">>, counter + 2),
                  StrandStub(<<2, 4>>, <<"w", "w">>, counter + 3) >>
        /\ counter' = counter + 4
        /\ games' = Append(games, self)
        /\ last' = Call("StrandsGameStub", Len(games) + 1, 0, ht, filename,
                        NoPos, NoneV, EmptyGame, self)

\* a caller constructs StrandStub(start, steps)
StrandStub_init(inp) ==
    /\ NumUserStrands < MaxUserStrands
    /\ heap' = Append(heap, StrandStub(inp.start, inp.steps, counter))
    /\ counter' = counter + 1
    /\ games' = games
    /\ last' = Call("StrandStub", 0, Len(heap) + 1, 0, NoFile, NoPos, NoneV,
                    EmptyGame, EmptyGame)

\* games[g].submit_strand(heap[s])
submit_strand(g, s) ==
    LET self == games[g]
        post == [self EXCEPT !.found = submit_strand_found(self)]
    IN  /\ games' = [games EXCEPT ![g] = post]
        /\ last' = Call("submit_strand", g, s, 0, NoFile, NoPos,
                        submit_strand_result(self), self, post)
        /\ UNCHANGED <<counter, heap>>

\* games[g].use_hint()
use_hint(g) ==
    LET self == games[g]
    IN  /\ last' = Call("use_hint", g, 0, 0, NoFile, NoPos,
                        use_hint_result(self), self, self)
        /\ UNCHANGED <<counter, heap, games>>

\* games[g].board().get_letter(PosStub(pos))
board_get_letter(g, pos) ==
    LET self == games[g]
    IN  /\ last' = Call("get_letter", g, 0, 0, NoFile, pos,
                        get_letter(board_letters, pos), self, self)
        /\ UNCHANGED <<counter, heap, games>>

\* games[g].board().evaluate_strand(heap[s])
board_evaluate_strand(g, s) ==
    LET self == games[g]
    IN  /\ last' = Call("evaluate_strand", g, s, 0, NoFile, NoPos,
                        evaluate_strand(board_letters, heap[s]), self, self)
        /\ UNCHANGED <<counter, heap, games>>

\* PosStub(p).take_step(step)
pos_take_step(p, step) ==
    /\ last' = PosCall("take_step", p, step, NoPos, take_step(p, step))
    /\ UNCHANGED <<counter, heap, games>>

\* PosStub(p).step_to(PosStub(other))
pos_step_to(p, other) ==
    /\ last' = PosCall("step_to", p, "", other, step_to(p, other))
    /\ UNCHANGED <<counter, heap, games>>

\* PosStub(p).is_adjacent_to(PosStub(other))
pos_is_adjacent_to(p, other) ==
    /\ last' = PosCall("is_adjacent_to", p, "", other,
                       is_adjacent_to(p, other))
    /\ UNCHANGED <<counter, heap, games>>

\* heap[a] == heap[b]
strand_eq(a, b) ==
    /\ last' = [op |-> "__eq__", s |-> a, other |-> b,
                ret |-> Strand_eq(heap[a], heap[b])]
    /\ UNCHANGED <<counter, heap, games>>

\* -------------------------------------------------------- specifications
\* Several games and caller-made strands in one process.
NewGame == \E ht \in ThresholdInputs :
    Len(games) < MaxGames /\ StrandsGameStub_init(cs_142, ht) /\ UNCHANGED log
NewStrand == \E inp \in UserStrandInputs :
    StrandStub_init(inp) /\ UNCHANGED log
Submit == \E g \in DOMAIN games, s \in DOMAIN heap :
    submit_strand(g, s) /\ UNCHANGED log
Hint == \E g \in DOMAIN games :
    use_hint(g) /\ UNCHANGED log

Next == NewGame \/ NewStrand \/ Submit \/ Hint

Spec == Init /\ [][Next]_vars

\* One game played from its construction: log holds the constructor call
\* and then every submit_strand and use_hint call, at most MaxLog of them.
PlayNewGame == \E ht \in ThresholdInputs :
    Len(games) < 1 /\ StrandsGameStub_init(cs_142, ht) /\ log' = Append(log, last')
PlayNewStrand == \E inp \in UserStrandInputs :
    StrandStub_init(inp) /\ UNCHANGED log
PlaySubmit == \E g \in DOMAIN games, s \in DOMAIN heap :
    Len(log) - 1 < MaxLog /\ submit_strand(g, s) /\ log' = Append(log, last')
PlayHint == \E g \in DOMAIN games :
    Len(log) - 1 < MaxLog /\ use_hint(g) /\ log' = Append(log, last')

NextPlay == PlayNewGame \/ PlayNewStrand \/ PlaySubmit \/ PlayHint

SpecPlay == Init /\ [][NextPlay]_vars

\* Games constructed from valid and invalid game files, then played.
LoadNewGame == \E filename \in FileInputs, ht \in ThresholdInputs :
    Len(games) < MaxGames /\ StrandsGameStub_init(filename, ht)
                          /\ UNCHANGED log
LoadSubmit == \E g \in DOMAIN games, s \in DOMAIN heap :
    submit_strand(g, s) /\ UNCHANGED log

NextLoad == LoadNewGame \/ LoadSubmit

SpecLoad == Init /\ [][NextLoad]_vars

\* The board of a game: letters looked up at positions on and around it,
\* strands evaluated.
PosInputs ==
    ((0 - num_rows - Margin)..(num_rows - 1 + Margin))
        \X ((0 - num_cols - Margin)..(num_cols - 1 + Margin))

BoardNewGame == \E ht \in ThresholdInputs :
    Len(games) < MaxGames /\ StrandsGameStub_init(cs_142, ht) /\ UNCHANGED log
BoardGetLetter == \E g \in DOMAIN games, pos \in PosInputs :
    board_get_letter(g, pos) /\ UNCHANGED log
BoardEvaluateStrand == \E g \in DOMAIN games, s \in DOMAIN heap :
    board_evaluate_strand(g, s) /\ UNCHANGED log

NextBoard == BoardNewGame \/ BoardGetLetter \/ BoardEvaluateStrand

SpecBoard == Init /\ [][NextBoard]_vars

\* Positions on and around a 3x5 board: steps taken, steps and adjacency
\* between two of them computed.
AroundInputs ==
    ((0 - Margin)..(num_rows - 1 + Margin))
        \X ((0 - Margin)..(num_cols - 1 + Margin))

PosTakeStep == \E p \in AroundInputs, step \in Steps :
    pos_take_step(p, step) /\ UNCHANGED log
PosStepTo == \E p \in AroundInputs, other \in AroundInputs :
    pos_step_to(p, other) /\ UNCHANGED log
PosIsAdjacentTo == \E p \in AroundInputs, other \in AroundInputs :
    pos_is_adjacent_to(p, other) /\ UNCHANGED log

NextPos == PosTakeStep \/ PosStepTo \/ PosIsAdjacentTo

SpecPos == Init /\ [][NextPos]_vars

\* Strands of several games and of callers, compared with ==.
EqNewGame == \E ht \in ThresholdInputs :
    Len(games) < MaxGames /\ StrandsGameStub_init(cs_142, ht)
                          /\ UNCHANGED log
EqNewStrand == \E inp \in UserStrandInputs :
    StrandStub_init(inp) /\ UNCHANGED log
EqCompare == \E a \in DOMAIN heap, b \in DOMAIN heap :
    strand_eq(a, b) /\ UNCHANGED log

NextEq == EqNewGame \/ EqNewStrand \/ EqCompare

SpecEq == Init /\ [][NextEq]_vars

\* ------------------------------------------------- vocabulary of the claims
AnswerIdx == 1..4

\* what positions() gives for a strand object: the list, or the IndexError
PositionsObs(x) ==
    IF positions_raises(x)
    THEN [raises |-> TRUE, val |-> <<>>]
    ELSE [raises |-> FALSE, val |-> positions(x)]

\* heap strands a and b cover the same set of cells
SamePosSetIn(h, a, b) ==
    /\ ~positions_raises(h[a])
    /\ ~positions_raises(h[b])
    /\ Range(positions(h[a])) = Range(positions(h[b]))
SamePosSet(a, b) == SamePosSetIn(heap, a, b)

\* strand s covers the cells of the i-th answer of the game
Matches(self, s, i) == SamePosSet(s, answers(self)[i][2])

\* the i-th answer of the game is among its found strands, by cells
AnswerFound(self, i) ==
    \E k \in DOMAIN found_strands(self) :
        SamePosSet(found_strands(self)[k], answers(self)[i][2])

Unfound(self) == {i \in AnswerIdx : ~AnswerFound(self, i)}

Min(S) == CHOOSE m \in S : \A n \in S : m <= n

\* every cell of strand s is on the 3x5 board
InBounds(s) ==
    /\ ~positions_raises(heap[s])
    /\ \A p \in Range(positions(heap[s])) :
           p[1] \in 0..(num_rows - 1) /\ p[2] \in 0..(num_cols - 1)

IsSubmit(c) == c.op = "submit_strand"
IsHint(c) == c.op = "use_hint"
Won(c) == c.ret.tag = "pair" /\ c.ret.b

\* ------------------------------------------------------------------ C1
\* C1: submitting a strand that covers the cells of an answer not yet found
\* returns (word, True) with that answer's word, and found_strands grows by
\* exactly one element.
C1_SubmitUnfoundAnswer ==
    \A i \in AnswerIdx :
        (IsSubmit(last) /\ Matches(last.pre, last.s, i)
                        /\ ~AnswerFound(last.pre, i))
        => /\ last.ret = Pair(answers(last.pre)[i][1], TRUE)
           /\ Len(found_strands(last.post))
                  = Len(found_strands(last.pre)) + 1

\* ------------------------------------------------------------------ C2
\* C2: once a strand has been submitted and won (word, True), every later
\* submission of the same strand returns "Already found" and leaves
\* found_strands unchanged, also after the game is complete.
C2_Idempotence ==
    \A j, k \in DOMAIN log :
        (j < k /\ IsSubmit(log[j]) /\ IsSubmit(log[k])
               /\ log[j].s = log[k].s /\ Won(log[j]))
        => /\ log[k].ret = Str("Already found")
           /\ found_strands(log[k].post) = found_strands(log[k].pre)

\* ------------------------------------------------------------------ C3
\* C3: when the first four submissions to a game are its four answers in
\* some order, the game is over with four found strands, and the k-th found
\* strand covers the cells of the k-th submitted strand.
C3_OrderIndependence ==
    LET subs == SelectSeq(log, IsSubmit)
    IN  (/\ Len(subs) >= 4
         /\ \A i \in AnswerIdx :
                \E k \in 1..4 : Matches(subs[1].pre, subs[k].s, i))
        => LET fin == subs[4].post
           IN  /\ game_over(fin)
               /\ Len(found_strands(fin)) = 4
               /\ \A k \in 1..4 :
                      SamePosSet(found_strands(fin)[k], subs[k].s)

\* ------------------------------------------------------------------ C4
\* C4: game_over() is True exactly when as many strands are found as there
\* are answers.
C4_GameOverIff ==
    \A g \in DOMAIN games :
        game_over(games[g])
            <=> (Len(found_strands(games[g])) = Len(answers(games[g])))

\* ------------------------------------------------------------------ C6
\* C6: submit_strand on an in-bounds strand returns (word, True),
\* (word, False), "Already found", "Too short" or "Not in word list", and
\* use_hint returns (i, b), "No hint yet" or "Use your current hint";
\* neither raises, also once the game is complete.
C6_ResultVocabulary ==
    /\ (IsSubmit(last) /\ InBounds(last.s))
       => \/ last.ret.tag = "pair"
          \/ last.ret \in {Str("Already found"), Str("Too short"),
                           Str("Not in word list")}
    /\ IsHint(last)
       => \/ last.ret.tag = "hint"
          \/ last.ret \in {Str("No hint yet"), Str("Use your current hint")}

\* ------------------------------------------------------------------ C7
\* what a caller can observe of a game: the answer words, positions() of
\* each answer strand and of each found strand, and what the next
\* submit_strand and use_hint would give
GameObs(self, h) ==
    [words |-> [i \in AnswerIdx |-> answers(self)[i][1]],
     answer_positions |->
         [i \in AnswerIdx |-> PositionsObs(h[answers(self)[i][2]])],
     found_positions |->
         [k \in DOMAIN found_strands(self) |->
              PositionsObs(h[found_strands(self)[k]])],
     submit |-> submit_strand_result(self),
     hint |-> use_hint_result(self)]

\* C7: a step that constructs a game or a strand, or that operates another
\* game, leaves every observation of a game unchanged, and two games that
\* have found equally many strands are observed identically whichever was
\* constructed first.
C7_Isolation ==
    /\ [][\A g \in DOMAIN games :
            (last'.g # g \/ last'.op \in {"StrandsGameStub", "StrandStub"})
            => GameObs(games'[g], heap') = GameObs(games[g], heap)]_vars
    /\ [](\A g1, g2 \in DOMAIN games :
            Len(found_strands(games[g1])) = Len(found_strands(games[g2]))
            => GameObs(games[g1], heap) = GameObs(games[g2], heap))

\* ------------------------------------------------------------------ C8
\* C8: three consecutive use_hint calls that start with no active hint and
\* the meter at or above the threshold return (i, False), (i, True) and
\* "Use your current hint" for one index i, active_hint() after them is
\* (i, False), (i, True), (i, True), and the third call changes no state.
C8_HintReveal ==
    \A k \in DOMAIN log :
        (/\ k + 2 \in DOMAIN log
         /\ IsHint(log[k]) /\ IsHint(log[k + 1]) /\ IsHint(log[k + 2])
         /\ active_hint(log[k].pre) = NoneV
         /\ hint_meter(log[k].pre) >= hint_threshold(log[k].pre))
        => \E i \in 0..3 :
              /\ log[k].ret = HintRes(i, FALSE)
              /\ active_hint(log[k].post) = HintRes(i, FALSE)
              /\ log[k + 1].ret = HintRes(i, TRUE)
              /\ active_hint(log[k + 1].post) = HintRes(i, TRUE)
              /\ log[k + 2].ret = Str("Use your current hint")
              /\ active_hint(log[k + 2].post) = HintRes(i, TRUE)
              /\ log[k + 2].post = log[k + 2].pre

\* ------------------------------------------------------------------ C9
\* C9: use_hint with no active hint, the meter at or above the threshold and
\* an answer still to find returns (i, False) with i the smallest index of
\* an answer that is not found.
C9_HintSmallestUnfound ==
    (/\ IsHint(last)
     /\ active_hint(last.pre) = NoneV
     /\ hint_meter(last.pre) >= hint_threshold(last.pre)
     /\ Unfound(last.pre) # {})
    => last.ret = HintRes(Min(Unfound(last.pre)) - 1, FALSE)

\* ------------------------------------------- cells of a start and its steps
\* the (row, col) delta of each step and the path a strand describes, as the
\* data model defines them (PosStub.take_step is not implemented)
SpecDelta(step) ==
    CASE step = "n" -> <<-1, 0>>
      [] step = "s" -> <<1, 0>>
      [] step = "e" -> <<0, 1>>
      [] step = "w" -> <<0, -1>>
      [] step = "nw" -> <<-1, -1>>
      [] step = "ne" -> <<-1, 1>>
      [] step = "sw" -> <<1, -1>>
      [] step = "se" -> <<1, 1>>

SpecTakeStep(p, step) ==
    <<p[1] + SpecDelta(step)[1], p[2] + SpecDelta(step)[2]>>

RECURSIVE SpecWalk(_, _)
SpecWalk(p, steps) ==
    IF steps = <<>>
    THEN <<p>>
    ELSE <<p>> \o SpecWalk(SpecTakeStep(p, Head(steps)), Tail(steps))

SpecCells(x) == Range(SpecWalk(x.start, x.steps))

\* strand s traces the cells of the i-th answer of the game
TracesAnswer(self, s, i) ==
    SpecCells(heap[s]) = SpecCells(heap[answers(self)[i][2]])

\* the i-th answer of the game has its cells among the found strands
AnswerTraced(self, i) ==
    \E k \in DOMAIN found_strands(self) :
        SpecCells(heap[found_strands(self)[k]])
            = SpecCells(heap[answers(self)[i][2]])

\* number of letters a strand evaluates to
NumLetters(x) == Len(x.steps) + 1

\* ------------------------------------------------------------------ C5
\* the call returned (word, True) with the word of one of the game's answers
ThemeFind(c) ==
    \E i \in AnswerIdx : c.ret = Pair(answers(c.pre)[i][1], TRUE)

\* the strand of the call traces the cells of an answer not yet found
TracesUnfound(c) ==
    \E i \in AnswerIdx :
        TracesAnswer(c.pre, c.s, i) /\ ~AnswerTraced(c.pre, i)

C12_FoundAtMostAnswers ==
    \A g \in DOMAIN games :
        Len(found_strands(games[g])) <= Len(answers(games[g]))

C12_Witness ==
    /\ IsSubmit(last)
    /\ Len(found_strands(last.pre)) = Len(answers(last.pre))
    /\ Len(found_strands(games[last.g])) = Len(answers(games[last.g]))

\* ------------------------------------------------------------------ C13
IsPrefix(a, b) == Len(a) <= Len(b) /\ SubSeq(b, 1, Len(a)) = a

\* C13: every step keeps each game's recorded strands as a prefix of its
\* found_strands (none removed, none reordered, the list never shorter),
\* and a game with all four answers found still has all four found.
C13_Monotonic ==
    [][\A g \in DOMAIN games :
          /\ IsPrefix(found_strands(games[g]), found_strands(games'[g]))
          /\ Len(found_strands(games[g])) = 4
             => Len(found_strands(games'[g])) = 4]_vars

C13_Witness ==
    /\ last.op \in {"submit_strand", "use_hint"}
    /\ Len(found_strands(last.pre)) = 4
    /\ \E g \in DOMAIN games : Len(found_strands(games[g])) \in 1..3

\* ------------------------------------------------------------------ C14
\* C14: submitting a strand that traces the cells of an already found
\* strand through another start or other steps returns "Already found" and
\* adds no entry, and no two found strands of a game trace the same cells.
C14_FindByCells ==
    /\ (/\ IsSubmit(last)
        /\ \E k \in DOMAIN found_strands(last.pre) :
              LET f == heap[found_strands(last.pre)[k]]
              IN  /\ SpecCells(heap[last.s]) = SpecCells(f)
                  /\ ~Strand_eq(heap[last.s], f))
       => /\ last.ret = Str("Already found")
          /\ found_strands(last.post) = found_strands(last.pre)
    /\ \A g \in DOMAIN games :
           \A j, k \in DOMAIN found_strands(games[g]) :
               j # k => SpecCells(heap[found_strands(games[g])[j]])
                            # SpecCells(heap[found_strands(games[g])[k]])

\* ------------------------------------------------------------------ C15
\* C15: the strand that a theme find appends to found_strands is the strand
\* that was submitted, with its start and its steps.
C15_RecordsSubmitted ==
    (IsSubmit(last) /\ Won(last))
    => /\ Len(found_strands(last.post)) = Len(found_strands(last.pre)) + 1
       /\ IsPrefix(found_strands(last.pre), found_strands(last.post))
       /\ Strand_eq(heap[found_strands(last.post)
                             [Len(found_strands(last.post))]],
                    heap[last.s])

\* ------------------------------------------------------------------ C16
\* C16: submitting a strand of fewer than four letters that does not trace
\* an answer still to be found returns "Too short" and changes no state.
C16_TooShort ==
    (/\ IsSubmit(last)
     /\ NumLetters(heap[last.s]) < 4
     /\ ~\E i \in AnswerIdx :
            TracesAnswer(last.pre, last.s, i) /\ ~AnswerTraced(last.pre, i))
    => /\ last.ret = Str("Too short")
       /\ last.post = last.pre

\* ------------------------------------------------------------------ C17
\* C17: submitting a strand of at least four letters that traces no answer
\* returns (word, False), "Already found" or "Not in word list", whatever
\* the dictionary holds; it never returns (word, True).
C17_NonThemeWord ==
    (/\ IsSubmit(last)
     /\ NumLetters(heap[last.s]) >= 4
     /\ ~\E i \in AnswerIdx : TracesAnswer(last.pre, last.s, i))
    => \/ last.ret.tag = "pair" /\ ~last.ret.b
       \/ last.ret \in {Str("Already found"), Str("Not in word list")}

\* ------------------------------------------------------------------ C18
OnBoard(pos) ==
    pos[1] \in 0..(num_rows - 1) /\ pos[2] \in 0..(num_cols - 1)

\* C18: get_letter returns a letter for a position on the board and raises
\* ValueError for every position off it, negative rows and columns
\* included.
C18_GetLetterBounds ==
    last.op = "get_letter"
    => IF OnBoard(last.pos)
       THEN last.ret.tag = "str"
       ELSE last.ret = Raise("ValueError")

\* ------------------------------------------------------------------ C19
AllCells == (0..(num_rows - 1)) \X (0..(num_cols - 1))

\* C19: for every game, positions() of each answer strand is on the board
\* and together the answers' positions are all the cells of the board.
C19_AnswersFillBoard ==
    \A g \in DOMAIN games :
        /\ \A i \in AnswerIdx :
               /\ ~positions_raises(heap[answers(games[g])[i][2]])
               /\ \A p \in Range(positions(heap[answers(games[g])[i][2]])) :
                      OnBoard(p)
        /\ UNION {Range(positions(heap[answers(games[g])[i][2]])) :
                      i \in AnswerIdx} = AllCells

\* ------------------------------------------------------------------ C20
RECURSIVE Concat(_)
Concat(letters) ==
    IF letters = <<>> THEN "" ELSE Head(letters) \o Concat(Tail(letters))

Lower(ch) ==
    CASE ch = "C" -> "c" [] ch = "S" -> "s" [] ch = "M" -> "m"
      [] ch = "T" -> "t" [] ch = "O" -> "o" [] ch = "F" -> "f"
      [] ch = "R" -> "r" [] ch = "Y" -> "y" [] ch = "N" -> "n"
      [] ch = "E" -> "e" [] ch = "W" -> "w" [] OTHER -> ch

\* C20: evaluate_strand of an answer's strand returns the letters that
\* get_letter gives at the strand's positions, joined in order, and in
\* lowercase they spell the answer's word.
C20_RoundTrip ==
    \A i \in AnswerIdx :
        (/\ last.op = "evaluate_strand"
         /\ last.s = answers(last.pre)[i][2]
         /\ ~positions_raises(heap[last.s]))
        => LET ps == positions(heap[last.s])
               ls == [k \in DOMAIN ps |-> get_letter(board_letters, ps[k]).s]
           IN  /\ last.ret = Str(Concat(ls))
               /\ Concat([k \in DOMAIN ls |-> Lower(ls[k])])
                      = answers(last.pre)[i][1]

\* ------------------------------------------------------------------ C21
LowerLetters ==
    {"a", "b", "c", "d", "e", "f", "g", "h", "i", "j", "k", "l", "m",
     "n", "o", "p", "q", "r", "s", "t", "u", "v", "w", "x", "y", "z"}

UpperLetters ==
    {"A", "B", "C", "D", "E", "F", "G", "H", "I", "J", "K", "L", "M",
     "N", "O", "P", "Q", "R", "S", "T", "U", "V", "W", "X", "Y", "Z"}

\* the word of the i-th answer, letter by letter, as the board spells it in
\* lowercase along the answer's hard-coded positions
SpelledLower(i) ==
    Concat([k \in DOMAIN all_positions[i] |->
                Lower(get_letter(board_letters, all_positions[i][k]).s)])

\* C21: get_letter at a position on the board returns one lowercase
\* letter ("t" at (0, 4) of the CS 142 board), and each word of answers()
\* is the lowercase spelling of its letters.
C21_LowercaseStorage ==
    /\ (last.op = "get_letter" /\ OnBoard(last.pos))
       => /\ last.ret.tag = "str"
          /\ last.ret.s \in LowerLetters
          /\ (last.pos = <<0, 4>> => last.ret = Str("t"))
    /\ \A g \in DOMAIN games : \A i \in AnswerIdx :
           answers(games[g])[i][1] = SpelledLower(i)

\* ------------------------------------------------------------------ C22
StepNames == {"n", "s", "e", "w", "nw", "ne", "sw", "se"}

\* the validity rules of StrandsGameBase.__init__ for a game file f
Rectangular(f) ==
    /\ Len(f.board) >= 1
    /\ \A r \in DOMAIN f.board :
           Len(f.board[r]) >= 1 /\ Len(f.board[r]) = Len(f.board[1])

CellsAlphabetic(f) ==
    \A r \in DOMAIN f.board : \A c \in DOMAIN f.board[r] :
        f.board[r][c] \in LowerLetters \cup UpperLetters

OnBoardOf(f, pos) ==
    /\ pos[1] + 1 \in DOMAIN f.board
    /\ pos[2] + 1 \in DOMAIN f.board[pos[1] + 1]

AnswerValid(f, a) ==
    /\ Len(a.word) >= 3
    /\ \A k \in DOMAIN a.steps : a.steps[k] \in StepNames
    /\ LET ps == SpecWalk(a.start, a.steps)
       IN  /\ \A k \in DOMAIN ps : OnBoardOf(f, ps[k])
           /\ Len(ps) = Len(a.word)
           /\ \A k \in DOMAIN ps :
                  Lower(f.board[ps[k][1] + 1][ps[k][2] + 1])
                      = Lower(a.word[k])

AnswersFill(f) ==
    UNION {Range(SpecWalk(f.answers[k].start, f.answers[k].steps)) :
               k \in DOMAIN f.answers}
        = {pos \in (0..(Len(f.board) - 1)) \X (0..(Len(f.board[1]) - 1)) :
               TRUE}

ValidGameFile(f) ==
    /\ Rectangular(f)
    /\ CellsAlphabetic(f)
    /\ \A k \in DOMAIN f.answers : AnswerValid(f, f.answers[k])
    /\ AnswersFill(f)

\* the board and the answers a constructed game holds, as a game file
\* (the i-th answer's letters are those of the i-th lines of cs_142)
GameAsFile(self) ==
    [board |-> board_letters,
     answers |->
         [i \in AnswerIdx |->
              [word |-> cs_142.answers[i].word,
               start |-> heap[answers(self)[i][2]].start,
               steps |-> heap[answers(self)[i][2]].steps]]]

\* C22: constructing a game from an invalid game file raises ValueError and
\* adds no game; every game that was constructed satisfies the validity
\* rules.
C22_LoadAllOrNothing ==
    /\ (last.op = "StrandsGameStub" /\ ~ValidGameFile(last.file))
       => /\ last.ret = Raise("ValueError")
          /\ Len(games) < last.g
    /\ \A g \in DOMAIN games : ValidGameFile(GameAsFile(games[g]))

\* ------------------------------------------------------------------ C23
\* C23: for every strand, whenever it was constructed, positions() is its
\* start followed by the position after each of its steps in turn, so it
\* has len(steps) + 1 elements.
C23_PositionsWalk ==
    \A s \in DOMAIN heap :
        /\ ~positions_raises(heap[s])
        /\ positions(heap[s]) = SpecWalk(heap[s].start, heap[s].steps)
        /\ Len(positions(heap[s])) = Len(heap[s].steps) + 1

\* ------------------------------------------------------------------ C24
\* results of the PosStub methods: a position, a step, a bool
PosRes(p) == [tag |-> "pos", pos |-> p]
StepRes(step) == [tag |-> "step", step |-> step]
Bool(b) == [tag |-> "bool", s |-> "", i |-> 0, b |-> b]

\* C24: take_step returns the position moved by the step's (row, col)
\* delta, for each of the eight steps and without raising, and step_to
\* from the position to that result is the step taken.
C24_TakeStepDelta ==
    last.op = "take_step"
    => /\ last.ret = PosRes(SpecTakeStep(last.pos, last.step))
       /\ step_to(last.pos, SpecTakeStep(last.pos, last.step))
              = StepRes(last.step)

\* ------------------------------------------------------------------ C25
\* b is one step away from a: a different position, rows and columns each
\* at most one apart
OneStepAway(a, b) ==
    /\ a # b
    /\ b[1] - a[1] \in {-1, 0, 1}
    /\ b[2] - a[2] \in {-1, 0, 1}

\* C25: is_adjacent_to(a, b) is True exactly when b is one step away from
\* a; step_to(a, b) then returns a step, and raises ValueError otherwise,
\* for b = a and for b two or more rows or columns away.
C25_AdjacentIffStepTo ==
    /\ last.op = "is_adjacent_to"
       => /\ last.ret = Bool(OneStepAway(last.pos, last.other))
          /\ last.ret.b <=> step_to(last.pos, last.other).tag = "step"
    /\ last.op = "step_to"
       => IF OneStepAway(last.pos, last.other)
          THEN last.ret.tag = "step"
          ELSE last.ret = Raise("ValueError")

\* ------------------------------------------------------------------ C26
\* C26: x == y is True exactly when the starts have the same row and the
\* same column and the step lists have the same length and the same step at
\* each index; it is False for two strands that trace the same cells from
\* different starts or by different steps, and it does not follow the
\* order of construction or positions().
C26_StructuralEquality ==
    last.op = "__eq__"
    => LET x == heap[last.s]
           y == heap[last.other]
       IN  /\ last.ret <=> /\ x.start[1] = y.start[1]
                           /\ x.start[2] = y.start[2]
                           /\ Len(x.steps) = Len(y.steps)
                           /\ \A k \in DOMAIN x.steps :
                                  x.steps[k] = y.steps[k]
           /\ (SpecCells(x) = SpecCells(y)
                  /\ (x.start # y.start \/ x.steps # y.steps))
              => ~last.ret

\* two strand objects made at different times, with different positions(),
\* compare equal; two strands over the same cells compare unequal
C26_Witness ==
    /\ last.op = "__eq__"
    /\ last.s # last.other
    /\ last.ret
    /\ PositionsObs(heap[last.s]) # PositionsObs(heap[last.other])
    /\ \E a, b \in DOMAIN heap :
           /\ SpecCells(heap[a]) = SpecCells(heap[b])
           /\ ~Strand_eq(heap[a], heap[b])

\* ------------------------------------------------------------------ C27
\* C27: hint_threshold() is the hint threshold given to the constructor,
\* after the construction and after every submit_strand and use_hint call.
C27_HintThresholdKept ==
    \A k \in DOMAIN log : hint_threshold(log[k].post) = log[1].arg

\* ------------------------------------------------------------------ C29
\* C29: after k submit_strand calls on a stub game, k from 0 to 4,
\* found_strands() is its first k answer strands, which are those of CMSC,
\* ONE, FORTY and TWO in the order of the game file, whichever strands
\* were submitted.
C29_StubFindsNext ==
    LET subs == SelectSeq(log, IsSubmit)
    IN  \A g \in DOMAIN games :
            Len(subs) <= 4
            => /\ found_strands(games[g])
                      = [k \in 1..Len(subs) |-> answers(games[g])[k][2]]
               /\ \A k \in 1..Len(subs) :
                      LET x == heap[found_strands(games[g])[k]]
                      IN  /\ x.start = cs_142.answers[k].start
                          /\ x.steps = cs_142.answers[k].steps

\* four calls made, none of them with the strand that was found
C29_Witness ==
    LET subs == SelectSeq(log, IsSubmit)
    IN  /\ Len(subs) = 4
        /\ \A k \in 1..4 : subs[k].s # found_strands(games[1])[k]
        /\ \E k \in 1..4 : subs[k].s > 4

\* ------------------------------------------------------------------ C30
\* C30: in every state of the stub game active_hint() is None and
\* hint_meter() is 0, and a use_hint call leaves found_strands(),
\* hint_meter() and active_hint() as they were.
C30_HintNotAttempted ==
    /\ \A g \in DOMAIN games :
           active_hint(games[g]) = NoneV /\ hint_meter(games[g]) = 0
    /\ IsHint(last)
       => /\ found_strands(games[last.g]) = found_strands(last.pre)
          /\ hint_meter(games[last.g]) = hint_meter(last.pre)
          /\ active_hint(games[last.g]) = active_hint(last.pre)

C30_Witness ==
    /\ IsHint(last)
    /\ Len(found_strands(last.pre)) \in 1..3
    /\ games[last.g] = last.pre

====
